---- MODULE Spec2Model ----
(***************************************************************************)
(* The ext4 superblock decoder of superblock.go: the fixed 1024-byte       *)
(* little-endian layout, ParseSuperblock with its panic/recover error      *)
(* path, the derived accessors and the feature-flag registry.              *)
(*                                                                         *)
(* Integers wider than TLC's own are kept as tuples of base-256 digits,    *)
(* most significant digit first: a uint32 is a 4-tuple, a uint16 a 2-tuple,*)
(* a uint8 a 1-tuple (an int32 holds its two's-complement pattern).  A     *)
(* byte buffer is a sequence of bytes; the byte at offset o is buf[o + 1]. *)
(***************************************************************************)
EXTENDS Integers, Sequences, FiniteSets, TLC

\* src       each thread's byte source (the io.Reader it passes): its bytes,
\*           the error it reports at its end, how far it has been read, and
\*           the calls made on it
\* call      each thread's call of ParseSuperblock
\* heap      the Superblock records allocated so far, by address
\* registry  the package-level name listings and lookup maps
\* reply       what the accessor a thread called last returned
VARIABLES src, call, heap, registry, reply

vars == <<src, call, heap, registry, reply>>

\* ---------------------------------------------------------------- constants

Ext4Magic == 61267

SuperblockSize == 1024

SbRevlevelGoodOldRev == 0

SbRevlevelDynamicRev == 1

\* ------------------------------------------------------------------- layout

\* type Superblock struct: every field in declaration order, w the width in
\* bytes of one element and n the array length (0 for a scalar).
Fields ==
  <<
    [name |-> "SInodesCount", w |-> 4, n |-> 0],
    [name |-> "SBlocksCountLo", w |-> 4, n |-> 0],
    [name |-> "SRBlocksCountLo", w |-> 4, n |-> 0],
    [name |-> "SFreeBlocksCountLo", w |-> 4, n |-> 0],
    [name |-> "SFreeInodesCount", w |-> 4, n |-> 0],
    [name |-> "SFirstDataBlock", w |-> 4, n |-> 0],
    [name |-> "SLogBlockSize", w |-> 4, n |-> 0],
    [name |-> "SLogClusterSize", w |-> 4, n |-> 0],
    [name |-> "SBlocksPerGroup", w |-> 4, n |-> 0],
    [name |-> "SClustersPerGroup", w |-> 4, n |-> 0],
    [name |-> "SInodesPerGroup", w |-> 4, n |-> 0],
    [name |-> "SMtime", w |-> 4, n |-> 0],
    [name |-> "SWtime", w |-> 4, n |-> 0],
    [name |-> "SMntCount", w |-> 2, n |-> 0],
    [name |-> "SMaxMntCount", w |-> 2, n |-> 0],
    [name |-> "SMagic", w |-> 2, n |-> 0],
    [name |-> "SState", w |-> 2, n |-> 0],
    [name |-> "SErrors", w |-> 2, n |-> 0],
    [name |-> "SMinorRevLevel", w |-> 2, n |-> 0],
    [name |-> "SLastcheck", w |-> 4, n |-> 0],
    [name |-> "SCheckinterval", w |-> 4, n |-> 0],
    [name |-> "SCreatorOs", w |-> 4, n |-> 0],
    [name |-> "SRevLevel", w |-> 4, n |-> 0],
    [name |-> "SDefResuid", w |-> 2, n |-> 0],
    [name |-> "SDefResgid", w |-> 2, n |-> 0],
    [name |-> "SFirstIno", w |-> 4, n |-> 0],
    [name |-> "SInodeSize", w |-> 2, n |-> 0],
    [name |-> "SBlockGroupNr", w |-> 2, n |-> 0],
    [name |-> "SFeatureCompat", w |-> 4, n |-> 0],
    [name |-> "SFeatureIncompat", w |-> 4, n |-> 0],
    [name |-> "SFeatureRoCompat", w |-> 4, n |-> 0],
    [name |-> "SUuid", w |-> 1, n |-> 16],
    [name |-> "SVolumeName", w |-> 1, n |-> 16],
    [name |-> "SLastMounted", w |-> 1, n |-> 64],
    [name |-> "SAlgorithmUsageBitmap", w |-> 4, n |-> 0],
    [name |-> "SPreallocBlocks", w |-> 1, n |-> 0],
    [name |-> "SPreallocDirBlocks", w |-> 1, n |-> 0],
    [name |-> "SReservedGdtBlocks", w |-> 2, n |-> 0],
    [name |-> "SJournalUuid", w |-> 1, n |-> 16],
    [name |-> "SJournalInum", w |-> 4, n |-> 0],
    [name |-> "SJournalDev", w |-> 4, n |-> 0],
    [name |-> "SLastOrphan", w |-> 4, n |-> 0],
    [name |-> "SHashSeed", w |-> 4, n |-> 4],
    [name |-> "SDefHashVersion", w |-> 1, n |-> 0],
    [name |-> "SJnlBackupType", w |-> 1, n |-> 0],
    [name |-> "SDescSize", w |-> 2, n |-> 0],
    [name |-> "SDefaultMountOpts", w |-> 4, n |-> 0],
    [name |-> "SFirstMetaBg", w |-> 4, n |-> 0],
    [name |-> "SMkfsTime", w |-> 4, n |-> 0],
    [name |-> "SJnlBlocks", w |-> 4, n |-> 17],
    [name |-> "SBlocksCountHi", w |-> 4, n |-> 0],
    [name |-> "SRBlocksCountHi", w |-> 4, n |-> 0],
    [name |-> "SFreeBlocksCountHi", w |-> 4, n |-> 0],
    [name |-> "SMinExtraIsize", w |-> 2, n |-> 0],
    [name |-> "SWantExtraIsize", w |-> 2, n |-> 0],
    [name |-> "SFlags", w |-> 4, n |-> 0],
    [name |-> "SRaidStride", w |-> 2, n |-> 0],
    [name |-> "SMmpInterval", w |-> 2, n |-> 0],
    [name |-> "SMmpBlock", w |-> 8, n |-> 0],
    [name |-> "SRaidStripeWidth", w |-> 4, n |-> 0],
    [name |-> "SLogGroupsPerFlex", w |-> 1, n |-> 0],
    [name |-> "SChecksumType", w |-> 1, n |-> 0],
    [name |-> "SEncryptionLevel", w |-> 1, n |-> 0],
    [name |-> "SReservedPad", w |-> 1, n |-> 0],
    [name |-> "SKbytesWritten", w |-> 8, n |-> 0],
    [name |-> "SSnapshotInum", w |-> 4, n |-> 0],
    [name |-> "SSnapshotId", w |-> 4, n |-> 0],
    [name |-> "SSnapshotRBlocksCount", w |-> 8, n |-> 0],
    [name |-> "SSnapshotList", w |-> 4, n |-> 0],
    [name |-> "SErrorCount", w |-> 4, n |-> 0],
    [name |-> "SFirstErrorTime", w |-> 4, n |-> 0],
    [name |-> "SFirstErrorIno", w |-> 4, n |-> 0],
    [name |-> "SFirstErrorBlock", w |-> 8, n |-> 0],
    [name |-> "SFirstErrorFunc", w |-> 1, n |-> 32],
    [name |-> "SFirstErrorLine", w |-> 4, n |-> 0],
    [name |-> "SLastErrorTime", w |-> 4, n |-> 0],
    [name |-> "SLastErrorIno", w |-> 4, n |-> 0],
    [name |-> "SLastErrorLine", w |-> 4, n |-> 0],
    [name |-> "SLastErrorBlock", w |-> 8, n |-> 0],
    [name |-> "SLastErrorFunc", w |-> 1, n |-> 32],
    [name |-> "SMountOpts", w |-> 1, n |-> 64],
    [name |-> "SUsrQuotaInum", w |-> 4, n |-> 0],
    [name |-> "SGrpQuotaInum", w |-> 4, n |-> 0],
    [name |-> "SOverheadClusters", w |-> 4, n |-> 0],
    [name |-> "SBackupBgs", w |-> 4, n |-> 2],
    [name |-> "SEncryptAlgos", w |-> 1, n |-> 4],
    [name |-> "SEncryptPwSalt", w |-> 1, n |-> 16],
    [name |-> "SLpfIno", w |-> 4, n |-> 0],
    [name |-> "SPrjQuotaInum", w |-> 4, n |-> 0],
    [name |-> "SChecksumSeed", w |-> 4, n |-> 0],
    [name |-> "SWtimeHi", w |-> 1, n |-> 0],
    [name |-> "SMtimeHi", w |-> 1, n |-> 0],
    [name |-> "SMkfsTimeHi", w |-> 1, n |-> 0],
    [name |-> "SLastcheckHi", w |-> 1, n |-> 0],
    [name |-> "SFirstErrorTimeHi", w |-> 1, n |-> 0],
    [name |-> "SLastErrorTimeHi", w |-> 1, n |-> 0],
    [name |-> "SPad", w |-> 1, n |-> 2],
    [name |-> "SReserved", w |-> 4, n |-> 96],
    [name |-> "SChecksum", w |-> 4, n |-> 0]
  >>

NumFields == Len(Fields)

FieldNames == {Fields[i].name : i \in 1..NumFields}

\* binary.dataSize of one struct field: arrays are element width times length.
\* Faulty variant of FieldSize: a uint64 field declared as uint32.
FieldSizeNarrow(f) == (IF f.w = 8 THEN 4 ELSE f.w) * (IF f.n = 0 THEN 1 ELSE f.n)

FieldSize(f) == f.w * (IF f.n = 0 THEN 1 ELSE f.n)

\* The bytes fields lo..hi take together.
RECURSIVE SizeOfFields(_, _)
SizeOfFields(lo, hi) ==
  IF lo > hi THEN 0
  ELSE IF lo = hi THEN FieldSize(Fields[lo])
  ELSE LET mid == (lo + hi) \div 2
       IN  SizeOfFields(lo, mid) + SizeOfFields(mid + 1, hi)

\* The decoder walks the fields in order with no padding; FieldOffset[i] is
\* the offset of field i and FieldOffset[NumFields + 1] the size of the struct.
FieldOffset[i \in 1..(NumFields + 1)] == SizeOfFields(1, i - 1)

\* binary.dataSize(*Superblock): the number of bytes binary.Read asks for.
StructSize == FieldOffset[NumFields + 1]

FieldIndex(name) == CHOOSE i \in 1..NumFields : Fields[i].name = name

\* ------------------------------------------------------------ integer values

\* An unsigned value of w bytes with the given small magnitude (v < 256).
Small(v, w) == [j \in 1..w |-> IF j = w THEN v ELSE 0]

Zero(w) == Small(0, w)

\* The native value of a tuple of at most three digits.
RECURSIVE Val(_)
Val(d) == IF Len(d) = 0 THEN 0 ELSE 256 * Val(SubSeq(d, 1, Len(d) - 1)) + d[Len(d)]

\* a >= b on two unsigned values of the same width.
RECURSIVE GreaterEq(_, _)
GreaterEq(a, b) ==
  IF Len(a) = 0 THEN TRUE
  ELSE IF a[1] # b[1] THEN a[1] > b[1]
  ELSE GreaterEq(Tail(a), Tail(b))

\* Bitwise AND of two bytes.
RECURSIVE AndByte(_, _)
AndByte(x, y) ==
  IF x = 0 \/ y = 0 THEN 0
  ELSE 2 * AndByte(x \div 2, y \div 2) + (x % 2) * (y % 2)

\* Bitwise AND of two unsigned values of the same width.
And(a, b) == [j \in 1..Len(a) |-> AndByte(a[j], b[j])]

\* ------------------------------------------------------------ binary decoding

\* binary.LittleEndian.UintN(buf[o:]): the byte at the lowest offset is the
\* least significant digit.
\* Faulty variant of LittleEndianUint: binary.BigEndian.
BigEndianUint(buf, o, w) == [j \in 1..w |-> buf[o + j]]

LittleEndianUint(buf, o, w) == [j \in 1..w |-> buf[o + w - j + 1]]

\* decoder.value for one struct field: a scalar, or an array element by element.
DecodeField(buf, i) ==
  LET f == Fields[i]
      o == FieldOffset[i]
  IN  IF f.n = 0 THEN LittleEndianUint(buf, o, f.w)
      ELSE [k \in 1..f.n |-> LittleEndianUint(buf, o + (k - 1) * f.w, f.w)]

\* decoder.value on the whole struct.
Decode(buf) == [name \in FieldNames |-> DecodeField(buf, FieldIndex(name))]

\* new(Superblock): every field zero.
ZeroSuperblock ==
  [name \in FieldNames |->
     LET f == Fields[FieldIndex(name)]
     IN  IF f.n = 0 THEN Zero(f.w) ELSE [k \in 1..f.n |-> Zero(f.w)]]

\* binary.Write of a record: the inverse layout, used to build sources.
PutUint(d) == [j \in 1..Len(d) |-> d[Len(d) - j + 1]]

RECURSIVE ConcatRange(_, _, _)
ConcatRange(ss, lo, hi) ==
  IF lo > hi THEN <<>>
  ELSE IF lo = hi THEN ss[lo]
  ELSE LET mid == (lo + hi) \div 2
       IN  ConcatRange(ss, lo, mid) \o ConcatRange(ss, mid + 1, hi)

Concat(ss) == ConcatRange(ss, 1, Len(ss))

EncodeField(v, f) ==
  IF f.n = 0 THEN PutUint(v) ELSE Concat([k \in 1..f.n |-> PutUint(v[k])])

Encode(sb) == Concat([i \in 1..NumFields |-> EncodeField(sb[Fields[i].name], Fields[i])])

\* --------------------------------------------------------- feature registry

SbFeatureCompatDirPrealloc == <<0, 0, 0, 1>>
SbFeatureCompatImagicInodes == <<0, 0, 0, 2>>
SbFeatureCompatHasJournal == <<0, 0, 0, 4>>
SbFeatureCompatExtAttr == <<0, 0, 0, 8>>
SbFeatureCompatResizeInode == <<0, 0, 0, 16>>
SbFeatureCompatDirIndex == <<0, 0, 0, 32>>

SbFeatureCompatNames ==
  <<"DirIndex", "DirPrealloc", "ExtAttr", "HasJournal", "ImagicInodes", "ResizeInode">>

SbFeatureCompatLookup ==
  ("DirPrealloc" :> SbFeatureCompatDirPrealloc) @@
  ("ImagicInodes" :> SbFeatureCompatImagicInodes) @@
  ("HasJournal" :> SbFeatureCompatHasJournal) @@
  ("ExtAttr" :> SbFeatureCompatExtAttr) @@
  ("ResizeInode" :> SbFeatureCompatResizeInode) @@
  ("DirIndex" :> SbFeatureCompatDirIndex)

SbFeatureRoCompatSparseSuper == <<0, 0, 0, 1>>
SbFeatureRoCompatLargeFile == <<0, 0, 0, 2>>
SbFeatureRoCompatBtreeDir == <<0, 0, 0, 4>>
SbFeatureRoCompatHugeFile == <<0, 0, 0, 8>>
SbFeatureRoCompatGdtCsum == <<0, 0, 0, 16>>
SbFeatureRoCompatDirNlink == <<0, 0, 0, 32>>
SbFeatureRoCompatExtraIsize == <<0, 0, 0, 64>>

SbFeatureRoCompatNames ==
  <<"BtreeDir", "DirNlink", "ExtraIsize", "GdtCsum", "HugeFile", "LargeFile",
    "SparseSuper">>

SbFeatureRoCompatLookup ==
  ("SparseSuper" :> SbFeatureRoCompatSparseSuper) @@
  ("LargeFile" :> SbFeatureRoCompatLargeFile) @@
  ("BtreeDir" :> SbFeatureRoCompatBtreeDir) @@
  ("HugeFile" :> SbFeatureRoCompatHugeFile) @@
  ("GdtCsum" :> SbFeatureRoCompatGdtCsum) @@
  ("DirNlink" :> SbFeatureRoCompatDirNlink) @@
  ("ExtraIsize" :> SbFeatureRoCompatExtraIsize)

SbFeatureIncompatCompression == <<0, 0, 0, 1>>
SbFeatureIncompatFiletype == <<0, 0, 0, 2>>
SbFeatureIncompatRecover == <<0, 0, 0, 4>>
SbFeatureIncompatJournalDev == <<0, 0, 0, 8>>
SbFeatureIncompatMetaBg == <<0, 0, 0, 16>>
SbFeatureIncompatExtents == <<0, 0, 0, 64>>
SbFeatureIncompat64bit == <<0, 0, 0, 128>>
SbFeatureIncompatMmp == <<0, 0, 1, 0>>
SbFeatureIncompatFlexBg == <<0, 0, 2, 0>>

SbFeatureIncompatNames ==
  <<"64bit", "Compression", "Extents", "Filetype", "FlexBg", "JournalDev", "MetaBg",
    "Mmp", "Recover">>

SbFeatureIncompatLookup ==
  ("Compression" :> SbFeatureIncompatCompression) @@
  ("Filetype" :> SbFeatureIncompatFiletype) @@
  ("Recover" :> SbFeatureIncompatRecover) @@
  ("JournalDev" :> SbFeatureIncompatJournalDev) @@
  ("MetaBg" :> SbFeatureIncompatMetaBg) @@
  ("Extents" :> SbFeatureIncompatExtents) @@
  ("64bit" :> SbFeatureIncompat64bit) @@
  ("Mmp" :> SbFeatureIncompatMmp) @@
  ("FlexBg" :> SbFeatureIncompatFlexBg)

\* The package-level registry variables as the process holds them.
Registry ==
  [CompatNames |-> SbFeatureCompatNames, CompatLookup |-> SbFeatureCompatLookup,
   RoCompatNames |-> SbFeatureRoCompatNames, RoCompatLookup |-> SbFeatureRoCompatLookup,
   IncompatNames |-> SbFeatureIncompatNames, IncompatLookup |-> SbFeatureIncompatLookup]

\* The bytes of each name literal of the registry (Go compares strings bytewise).
StringBytes ==
  ("64bit" :> <<54, 52, 98, 105, 116>>) @@
  ("BtreeDir" :> <<66, 116, 114, 101, 101, 68, 105, 114>>) @@
  ("Compression" :> <<67, 111, 109, 112, 114, 101, 115, 115, 105, 111, 110>>) @@
  ("DirIndex" :> <<68, 105, 114, 73, 110, 100, 101, 120>>) @@
  ("DirNlink" :> <<68, 105, 114, 78, 108, 105, 110, 107>>) @@
  ("DirPrealloc" :> <<68, 105, 114, 80, 114, 101, 97, 108, 108, 111, 99>>) @@
  ("ExtAttr" :> <<69, 120, 116, 65, 116, 116, 114>>) @@
  ("Extents" :> <<69, 120, 116, 101, 110, 116, 115>>) @@
  ("ExtraIsize" :> <<69, 120, 116, 114, 97, 73, 115, 105, 122, 101>>) @@
  ("Filetype" :> <<70, 105, 108, 101, 116, 121, 112, 101>>) @@
  ("FlexBg" :> <<70, 108, 101, 120, 66, 103>>) @@
  ("GdtCsum" :> <<71, 100, 116, 67, 115, 117, 109>>) @@
  ("HasJournal" :> <<72, 97, 115, 74, 111, 117, 114, 110, 97, 108>>) @@
  ("HugeFile" :> <<72, 117, 103, 101, 70, 105, 108, 101>>) @@
  ("ImagicInodes" :> <<73, 109, 97, 103, 105, 99, 73, 110, 111, 100, 101, 115>>) @@
  ("JournalDev" :> <<74, 111, 117, 114, 110, 97, 108, 68, 101, 118>>) @@
  ("LargeFile" :> <<76, 97, 114, 103, 101, 70, 105, 108, 101>>) @@
  ("MetaBg" :> <<77, 101, 116, 97, 66, 103>>) @@
  ("Mmp" :> <<77, 109, 112>>) @@
  ("Recover" :> <<82, 101, 99, 111, 118, 101, 114>>) @@
  ("ResizeInode" :> <<82, 101, 115, 105, 122, 101, 73, 110, 111, 100, 101>>) @@
  ("SparseSuper" :> <<83, 112, 97, 114, 115, 101, 83, 117, 112, 101, 114>>)

\* ------------------------------------------------------------------- errors

\* An error value: which error it is, and whether go-logging wrapped it
\* (log.Wrap leaves an already wrapped error as it is).
Err(e) == [err |-> e, wrapped |-> FALSE]

Nil == Err("nil")

ErrNotExt4 == Err("not ext4")

EOF == Err("EOF")

ErrUnexpectedEOF == Err("unexpected EOF")

\* An error of the byte source's own (a failing device or file).
ErrSource == Err("input/output error")

\* log.Wrap(err); log.Panic and log.PanicIf panic with the wrapped error.
Wrap(e) == [e EXCEPT !.wrapped = TRUE]

\* ---------------------------------------------------------------- accessors

Greater(a, b) == GreaterEq(a, b) /\ a # b

\* func (sb *Superblock) HasExtended() bool
\* Faulty variant of HasExtended: > in place of >=.
HasExtendedStrict(sb) == Greater(sb.SRevLevel, Small(SbRevlevelDynamicRev, 4))

HasExtended(sb) == GreaterEq(sb.SRevLevel, Small(SbRevlevelDynamicRev, 4))

\* The float64 10 + float64(sb.SLogBlockSize), which is exact; every exponent
\* past 1023, where math.Pow(2, x) is +Inf, is kept as 1024.
\* Faulty variant of Exponent: the 10 left out.
ExponentNoBase(e) == IF e[1] = 0 /\ e[2] = 0 /\ e[3] = 0 THEN e[4] ELSE 1024

Exponent(e) == IF e[1] = 0 /\ e[2] = 0 /\ e[3] = 0 THEN 10 + e[4] ELSE 1024

\* The uint32 with only bit x set (x < 32).
Pow2(x) == [j \in 1..4 |-> IF j = 4 - (x \div 8) THEN 2 ^ (x % 8) ELSE 0]

\* uint32(f) for f = 2^x.  A float64 that does not fit in a uint32 converts to
\* an implementation-dependent value: the low 32 bits of the int64 conversion
\* (0) on amd64, the saturated 0xFFFFFFFF on arm64.
Float64ToUint32(x) ==
  IF x < 32 THEN {Pow2(x)} ELSE {<<0, 0, 0, 0>>, <<255, 255, 255, 255>>}

\* func (sb *Superblock) BlockSize() uint32: the values a build can return.
BlockSize(sb) == Float64ToUint32(Exponent(sb.SLogBlockSize))

\* time.Unix(int64(sec), 0) of a uint32 field.
Unix(sec) == [sec |-> sec, nsec |-> 0]

MountTime(sb) == Unix(sb.SMtime)

WriteTime(sb) == Unix(sb.SWtime)

LastCheckTime(sb) == Unix(sb.SLastcheck)

\* func (sb *Superblock) HasCompatibleFeature(mask uint32) bool, and the two
\* others: (field & mask) > 0.
HasCompatibleFeature(sb, mask) == Greater(And(sb.SFeatureCompat, mask), Zero(4))

\* Faulty variant of HasReadonlyCompatibleFeature: the neighbouring field.
HasReadonlyCompatibleFeatureSwapped(sb, mask) ==
  Greater(And(sb.SFeatureIncompat, mask), Zero(4))

HasReadonlyCompatibleFeature(sb, mask) ==
  Greater(And(sb.SFeatureRoCompat, mask), Zero(4))

HasIncompatibleFeature(sb, mask) == Greater(And(sb.SFeatureIncompat, mask), Zero(4))

\* One fmt.Printf call: the format and its arguments.
Printf(f, args) == [fmt |-> f, args |-> args]

\* The three loops of Dump: one line per name of the listing, with the mask
\* the lookup gives and the predicate's answer.
\* Faulty variant of FlagLines: the names taken in another order.
FlagLinesUnsorted(names, lookup, sb, cat) ==
  [i \in 1..Len(names) |->
     LET name == names[Len(names) - i + 1]
         bit == lookup[name]
     IN  Printf("  %15s (0x%02x): %v\n",
                <<name, bit,
                  CASE cat = "Compat" -> HasCompatibleFeature(sb, bit)
                    [] cat = "RoCompat" -> HasReadonlyCompatibleFeature(sb, bit)
                    [] cat = "Incompat" -> HasIncompatibleFeature(sb, bit)>>)]

FlagLines(names, lookup, sb, cat) ==
  [i \in 1..Len(names) |->
     LET name == names[i]
         bit == lookup[name]
     IN  Printf("  %15s (0x%02x): %v\n",
                <<name, bit,
                  CASE cat = "Compat" -> HasCompatibleFeature(sb, bit)
                    [] cat = "RoCompat" -> HasReadonlyCompatibleFeature(sb, bit)
                    [] cat = "Incompat" -> HasIncompatibleFeature(sb, bit)>>)]

\* func (sb *Superblock) Dump(): the Printf calls in order; bs is the value
\* sb.BlockSize() returned, reg the registry variables.
Dump(sb, reg, bs) ==
  << Printf("Superblock Info\n", <<>>),
     Printf("\n", <<>>),
     Printf("SInodesCount: (%d)\n", <<sb.SInodesCount>>),
     Printf("SBlocksCountLo: (%d)\n", <<sb.SBlocksCountLo>>),
     Printf("SRBlocksCountLo: (%d)\n", <<sb.SRBlocksCountLo>>),
     Printf("SFreeBlocksCountLo: (%d)\n", <<sb.SFreeBlocksCountLo>>),
     Printf("SFreeInodesCount: (%d)\n", <<sb.SFreeInodesCount>>),
     Printf("SFirstDataBlock: (%d)\n", <<sb.SFirstDataBlock>>),
     Printf("SLogBlockSize: (%d) => (%d)\n", <<sb.SLogBlockSize, bs>>),
     Printf("SLogClusterSize: (%d)\n", <<sb.SLogClusterSize>>),
     Printf("SBlocksPerGroup: (%d)\n", <<sb.SBlocksPerGroup>>),
     Printf("SClustersPerGroup: (%d)\n", <<sb.SClustersPerGroup>>),
     Printf("SInodesPerGroup: (%d)\n", <<sb.SInodesPerGroup>>),
     Printf("SMtime: [%s]\n", <<MountTime(sb)>>),
     Printf("SWtime: [%s]\n", <<WriteTime(sb)>>),
     Printf("SMntCount: (%d)\n", <<sb.SMntCount>>),
     Printf("SMaxMntCount: (%d)\n", <<sb.SMaxMntCount>>),
     Printf("SMagic: [%04x]\n", <<sb.SMagic>>),
     Printf("SState: (%04x)\n", <<sb.SState>>),
     Printf("SErrors: (%d)\n", <<sb.SErrors>>),
     Printf("SMinorRevLevel: (%d)\n", <<sb.SMinorRevLevel>>),
     Printf("SLastcheck: [%s]\n", <<LastCheckTime(sb)>>),
     Printf("SCheckinterval: (%d)\n", <<sb.SCheckinterval>>),
     Printf("SCreatorOs: (%d)\n", <<sb.SCreatorOs>>),
     Printf("SRevLevel: (%d)\n", <<sb.SRevLevel>>),
     Printf("SDefResuid: (%d)\n", <<sb.SDefResuid>>),
     Printf("SDefResgid: (%d)\n", <<sb.SDefResgid>>),
     Printf("\n", <<>>),
     Printf("Feature (Compatible)\n", <<>>),
     Printf("\n", <<>>) >>
  \o FlagLines(reg.CompatNames, reg.CompatLookup, sb, "Compat")
  \o << Printf("\n", <<>>),
        Printf("Feature (Read-Only Compatible)\n", <<>>),
        Printf("\n", <<>>) >>
  \o FlagLines(reg.RoCompatNames, reg.RoCompatLookup, sb, "RoCompat")
  \o << Printf("\n", <<>>),
        Printf("Feature (Incompatible)\n", <<>>),
        Printf("\n", <<>>) >>
  \o FlagLines(reg.IncompatNames, reg.IncompatLookup, sb, "Incompat")
  \o << Printf("\n", <<>>) >>

\* ----------------------------------------------------------- bounds, inputs

\* The calls one thread makes on its source.
MaxCalls == 3

\* The most bytes a source hands over in one short Read.
Chunk == 600

\* The bytes that follow the last whole block of a longer source.
TailLen == 100

Threads == {1, 2}

Min(a, b) == IF a < b THEN a ELSE b

\* A 1024-byte block is described by a filler (the byte at offset o is
\* (a + b * o) mod 256) and the bytes put over it at given offsets.
Put(o, bs) == [off |-> o, bytes |-> bs]

Block(a, b, puts) == [a |-> a, b |-> b, puts |-> puts]

\* The bytes of a block.
BlockBytes(blk) ==
  [i \in 1..1024 |->
     IF \E k \in 1..Len(blk.puts) :
          i > blk.puts[k].off /\ i <= blk.puts[k].off + Len(blk.puts[k].bytes)
     THEN LET k == CHOOSE k \in 1..Len(blk.puts) :
                     i > blk.puts[k].off /\ i <= blk.puts[k].off + Len(blk.puts[k].bytes)
          IN  blk.puts[k].bytes[i - blk.puts[k].off]
     ELSE (blk.a + blk.b * (i - 1)) % 256]

\* Blocks with the magic 0xEF53 at 0x38, and blocks without it: byte-swapped,
\* one bit off (all other bytes those of GoodA), and all zero.
GoodA == Block(7, 3, <<Put(56, <<83, 239>>)>>)

GoodB == Block(0, 0, <<Put(56, <<83, 239>>), Put(1020, <<1, 2, 3, 255>>)>>)

BadSwapped == Block(7, 3, <<Put(56, <<239, 83>>)>>)

BadOneBit == Block(7, 3, <<Put(56, <<82, 239>>)>>)

BadZero == Block(0, 0, <<>>)

\* A byte source is described by its blocks, the number of bytes it holds of
\* them, and the error it reports once they are used up.
Image(blocks, len, end) == [blocks |-> blocks, len |-> len, end |-> end]

\* The bytes of a source.
Data(img) ==
  SubSeq(Concat([i \in 1..Len(img.blocks) |-> BlockBytes(img.blocks[i])]), 1, img.len)

Images1 ==
  { Image(<<GoodA>>, 1024, EOF),
    Image(<<GoodA, BadSwapped, GoodB, GoodA>>, 3072 + TailLen, ErrSource),
    Image(<<BadZero, GoodB>>, 2048, EOF),
    Image(<<GoodA>>, 58, EOF),
    Image(<<BadOneBit>>, 1023, ErrSource),
    Image(<<BadOneBit>>, 1024, ErrSource),
    Image(<<>>, 0, EOF) }

Images2 ==
  { Image(<<GoodA>>, 1024, ErrSource),
    Image(<<GoodB, GoodA>>, 2048, EOF),
    Image(<<BadSwapped>>, 57, ErrSource) }

\* ------------------------------------------------------------------- state

\* A *Superblock: the thread and the ordinal of the call that allocated it.
NilPtr == <<0, 0>>

NoOutcome == [kind |-> "none", sb |-> NilPtr, err |-> Nil, value |-> Nil]

\* A thread's call of ParseSuperblock: where it stands (pc), the ordinal of the
\* call on its source and the source's position when it began, the bytes
\* io.ReadFull has gathered (n, buf), the named results sb and err, the value
\* of a panic under way, and what the caller finally observes (out).
IdleCall ==
  [pc |-> "idle", ord |-> 0, start |-> 0, n |-> 0, buf |-> <<>>,
   sb |-> NilPtr, err |-> Nil, panic |-> Nil, out |-> NoOutcome]

NoRet == [op |-> "none", sb |-> NilPtr, mask |-> Zero(4), res |-> FALSE]

Source(img) == [image |-> img, pos |-> 0, calls |-> 0]

InitWith(img1, img2) ==
  /\ src = [c \in Threads |-> IF c = 1 THEN Source(img1) ELSE Source(img2)]
  /\ call = [c \in Threads |-> IdleCall]
  /\ heap = [a \in {} |-> ZeroSuperblock]
  /\ registry = Registry
  /\ reply = NoRet

Init == \E i1 \in Images1, i2 \in Images2 : InitWith(i1, i2)

\* ---------------------------------------------------------- ParseSuperblock

\* new(Superblock) returns an address no other allocation has.
\* Faulty variant of New: one record shared by every call.
NewShared(c, ord) == <<0, 1>>

New(c, ord) == <<c, ord>>

\* One Read of the source for at most need bytes: the (count, error) pairs it
\* may return.  A source with bytes left returns some of them, and may report
\* its final error together with its last bytes; a source with none left
\* returns (0, end).
SourceRead(s, need) ==
  LET avail == s.image.len - s.pos
      most == Min(need, avail)
      sizes == {most, Min(Chunk, most)}
  IN  IF avail = 0 THEN {[k |-> 0, e |-> s.image.end]}
      ELSE {[k |-> k, e |-> Nil] : k \in sizes}
             \cup {[k |-> k, e |-> s.image.end] : k \in sizes \cap {avail}}

\* The room left in the buffer after n bytes, buf[n:], which the next Read of
\* io.ReadAtLeast's loop may fill.
\* Faulty variant of Remaining: the whole buffer offered again.
RemainingWhole(n) == StructSize

Remaining(n) == StructSize - n

\* The end of io.ReadAtLeast once the loop stopped short of min bytes.
\* Faulty variant of ReadFullErr: a short read taken for a full one.
ReadFullErrIgnored(n, e) == Nil

ReadFullErr(n, e) == IF n > 0 /\ e = EOF THEN ErrUnexpectedEOF ELSE e

\* The deferred function and what the caller then observes: a panic under way
\* is recovered, wrapped and raised again by log.Panic (the err it assigns is
\* a new local variable); a normal return hands back the named results.
\* Faulty variant of Outcome: the recovered error assigned to the named
\* result err and returned with sb.
OutcomeErrReturned(cl) ==
  IF cl.panic # Nil
  THEN [kind |-> "return", sb |-> cl.sb, err |-> Wrap(cl.panic), value |-> Nil]
  ELSE [kind |-> "return", sb |-> cl.sb, err |-> cl.err, value |-> Nil]

Outcome(cl) ==
  IF cl.panic # Nil
  THEN [kind |-> "panic", sb |-> NilPtr, err |-> Nil, value |-> Wrap(cl.panic)]
  ELSE [kind |-> "return", sb |-> cl.sb, err |-> cl.err, value |-> Nil]

\* The thread calls ParseSuperblock(r) on its source; what an accessor told
\* it before is dropped.
Call(c) ==
  /\ call[c].pc \in {"idle", "done"}
  /\ src[c].calls < MaxCalls
  /\ call' = [call EXCEPT ![c] = [IdleCall EXCEPT !.pc = "new",
                                                  !.ord = src[c].calls + 1,
                                                  !.start = src[c].pos]]
  /\ src' = [src EXCEPT ![c].calls = @ + 1]
  /\ reply' = NoRet
  /\ UNCHANGED <<heap, registry>>

\* sb = new(Superblock)
Alloc(c) ==
  /\ call[c].pc = "new"
  /\ LET p == New(c, call[c].ord)
     IN  /\ heap' = [a \in DOMAIN heap \cup {p} |->
                       IF a = p THEN ZeroSuperblock ELSE heap[a]]
         /\ call' = [call EXCEPT ![c].sb = p, ![c].pc = "read"]
  /\ UNCHANGED <<src, registry, reply>>

\* binary.Read, first half: one round of io.ReadFull's loop on the source.
\* When the loop ends short, binary.Read returns the error and its buffer is
\* dropped.
Read(c) ==
  /\ call[c].pc = "read"
  /\ \E r \in SourceRead(src[c], Remaining(call[c].n)) :
       LET n2 == call[c].n + r.k
           buf2 == call[c].buf
                     \o SubSeq(Data(src[c].image), src[c].pos + 1, src[c].pos + r.k)
       IN  /\ src' = [src EXCEPT ![c].pos = @ + r.k]
           /\ call' = [call EXCEPT ![c] =
                IF n2 >= StructSize
                THEN [@ EXCEPT !.n = n2, !.buf = buf2, !.pc = "decode"]
                ELSE IF r.e # Nil
                THEN [@ EXCEPT !.n = n2, !.buf = <<>>, !.pc = "panicif",
                               !.err = ReadFullErr(n2, r.e)]
                ELSE [@ EXCEPT !.n = n2, !.buf = buf2]]
  /\ UNCHANGED <<heap, registry, reply>>

\* binary.Read, second half: the buffer is decoded into *sb and dropped, and
\* err = nil.
DecodeInto(c) ==
  /\ call[c].pc = "decode"
  /\ heap' = [heap EXCEPT ![call[c].sb] = Decode(call[c].buf)]
  /\ call' = [call EXCEPT ![c].err = Nil, ![c].buf = <<>>, ![c].pc = "panicif"]
  /\ UNCHANGED <<src, registry, reply>>

\* log.PanicIf(err)
PanicIf(c) ==
  /\ call[c].pc = "panicif"
  /\ call' = [call EXCEPT ![c] =
       IF call[c].err # Nil
       THEN [@ EXCEPT !.panic = Wrap(call[c].err), !.pc = "deferred"]
       ELSE [@ EXCEPT !.pc = "magic"]]
  /\ UNCHANGED <<src, heap, registry, reply>>

\* if sb.SMagic != Ext4Magic { log.Panic(ErrNotExt4) }; return sb, nil
CheckMagic(c) ==
  /\ call[c].pc = "magic"
  /\ call' = [call EXCEPT ![c] =
       IF Val(heap[call[c].sb].SMagic) # Ext4Magic
       THEN [@ EXCEPT !.panic = Wrap(ErrNotExt4), !.pc = "deferred"]
       ELSE [@ EXCEPT !.err = Nil, !.pc = "deferred"]]
  /\ UNCHANGED <<src, heap, registry, reply>>

\* The deferred function runs and the call ends.
Deferred(c) ==
  /\ call[c].pc = "deferred"
  /\ call' = [call EXCEPT ![c].out = Outcome(call[c]), ![c].pc = "done"]
  /\ UNCHANGED <<src, heap, registry, reply>>

Parse(c) ==
  \/ Call(c)
  \/ Alloc(c)
  \/ Read(c)
  \/ DecodeInto(c)
  \/ PanicIf(c)
  \/ CheckMagic(c)
  \/ Deferred(c)

Next == \E c \in Threads : Parse(c)

Spec == Init /\ [][Next]_vars

\* ------------------------------------------------- the accessors, as called

\* The masks callers try: every bit the registry names, no bit, all bits, the
\* top bit and a pair of bits.
Masks ==
  {SbFeatureCompatLookup[k] : k \in DOMAIN SbFeatureCompatLookup}
    \cup {SbFeatureRoCompatLookup[k] : k \in DOMAIN SbFeatureRoCompatLookup}
    \cup {SbFeatureIncompatLookup[k] : k \in DOMAIN SbFeatureIncompatLookup}
    \cup {<<0, 0, 0, 0>>, <<255, 255, 255, 255>>, <<128, 0, 0, 0>>, <<0, 0, 1, 6>>}

\* The thread holds the record its last call returned.
Holds(c) == call[c].pc = "done" /\ call[c].out.kind = "return"

Answer(c, op, mask, res) ==
  /\ reply' = [op |-> op, sb |-> call[c].out.sb, mask |-> mask, res |-> res]
  /\ UNCHANGED <<src, call, heap, registry>>

CallHasExtended(c) ==
  /\ Holds(c)
  /\ Answer(c, "HasExtended", Zero(4), HasExtended(heap[call[c].out.sb]))

CallBlockSize(c) ==
  /\ Holds(c)
  /\ \E r \in BlockSize(heap[call[c].out.sb]) : Answer(c, "BlockSize", Zero(4), r)

CallHasCompatibleFeature(c) ==
  /\ Holds(c)
  /\ \E m \in Masks :
       Answer(c, "HasCompatibleFeature", m,
              HasCompatibleFeature(heap[call[c].out.sb], m))

CallHasReadonlyCompatibleFeature(c) ==
  /\ Holds(c)
  /\ \E m \in Masks :
       Answer(c, "HasReadonlyCompatibleFeature", m,
              HasReadonlyCompatibleFeature(heap[call[c].out.sb], m))

CallHasIncompatibleFeature(c) ==
  /\ Holds(c)
  /\ \E m \in Masks :
       Answer(c, "HasIncompatibleFeature", m,
              HasIncompatibleFeature(heap[call[c].out.sb], m))

CallDump(c) ==
  /\ Holds(c)
  /\ \E bs \in BlockSize(heap[call[c].out.sb]) :
       Answer(c, "Dump", Zero(4), Dump(heap[call[c].out.sb], registry, bs))

\* A block with the magic set and the given bytes at 0x18 (block-size
\* exponent), 0x4C (revision level), 0x5C, 0x60 and 0x64 (the compatible,
\* incompatible and read-only-compatible feature fields).
AccBlock(fill, e, rev, fc, fi, fr) ==
  Block(fill[1], fill[2],
        <<Put(56, <<83, 239>>), Put(24, e), Put(76, rev), Put(92, fc), Put(96, fi),
          Put(100, fr)>>)

Fills == {<<0, 0>>, <<7, 3>>}

LogBlockSizes ==
  { <<0, 0, 0, 0>>, <<1, 0, 0, 0>>, <<2, 0, 0, 0>>, <<5, 0, 0, 0>>, <<6, 0, 0, 0>>,
    <<21, 0, 0, 0>>, <<22, 0, 0, 0>>, <<53, 0, 0, 0>>, <<54, 0, 0, 0>>,
    <<255, 0, 0, 0>>, <<0, 1, 0, 0>>, <<6, 0, 0, 1>>, <<0, 0, 0, 128>>,
    <<255, 255, 255, 255>> }

RevLevels ==
  { <<0, 0, 0, 0>>, <<1, 0, 0, 0>>, <<2, 0, 0, 0>>, <<0, 1, 0, 0>>, <<0, 0, 0, 128>>,
    <<255, 255, 255, 255>> }

\* Feature fields (compatible, incompatible, read-only compatible), as bytes:
\* each registry bit alone in its category, and a few mixed values.
FeatureTriples ==
  { << <<b, 0, 0, 0>>, <<0, 0, 0, 0>>, <<0, 0, 0, 0>> >> : b \in {1, 2, 4, 8, 16, 32} }
    \cup { << <<0, 0, 0, 0>>, <<0, 0, 0, 0>>, <<b, 0, 0, 0>> >> :
             b \in {1, 2, 4, 8, 16, 32, 64} }
    \cup { << <<0, 0, 0, 0>>, <<b, 0, 0, 0>>, <<0, 0, 0, 0>> >> :
             b \in {1, 2, 4, 8, 16, 64, 128} }
    \cup { << <<0, 0, 0, 0>>, <<0, b, 0, 0>>, <<0, 0, 0, 0>> >> : b \in {1, 2} }
    \cup { << <<4, 0, 0, 0>>, <<2, 2, 0, 0>>, <<1, 0, 0, 0>> >>,
           << <<0, 0, 0, 0>>, <<0, 0, 0, 0>>, <<0, 0, 0, 0>> >>,
           << <<255, 255, 255, 255>>, <<255, 255, 255, 255>>, <<255, 255, 255, 255>> >>,
           << <<0, 0, 0, 128>>, <<0, 0, 128, 0>>, <<192, 0, 0, 0>> >>,
           << <<60, 0, 0, 0>>, <<66, 2, 0, 0>>, <<123, 0, 0, 0>> >> }

AccImages ==
  { Image(<<AccBlock(f, e, <<1, 0, 0, 0>>, <<4, 0, 0, 0>>, <<66, 2, 0, 0>>,
                     <<3, 0, 0, 0>>)>>, 1024, EOF) : f \in Fills, e \in LogBlockSizes }
    \cup { Image(<<AccBlock(f, <<2, 0, 0, 0>>, r, <<0, 0, 0, 0>>, <<0, 0, 0, 0>>,
                            <<0, 0, 0, 0>>)>>, 1024, EOF) : f \in Fills, r \in RevLevels }
    \cup { Image(<<AccBlock(f, <<0, 0, 0, 0>>, <<1, 0, 0, 0>>, t[1], t[2], t[3])>>,
                 1024, ErrSource) : f \in Fills, t \in FeatureTriples }
    \cup { Image(<<BadSwapped>>, 1024, EOF), Image(<<GoodA>>, 58, ErrSource) }

InitAcc == \E i1 \in AccImages : InitWith(i1, Image(<<>>, 0, EOF))

NextAcc ==
  \/ Parse(1)
  \/ CallHasExtended(1)
  \/ CallBlockSize(1)
  \/ CallHasCompatibleFeature(1)
  \/ CallHasReadonlyCompatibleFeature(1)
  \/ CallHasIncompatibleFeature(1)
  \/ CallDump(1)

SpecAcc == InitAcc /\ [][NextAcc]_vars

\* --------------------------------------------------------------- properties

Done(c) == call[c].pc = "done"

\* The bytes the source had not yet handed out when the call began, and the
\* first 1024 of them.
Unread(c) == src[c].image.len - call[c].start

Window(c) == SubSeq(Data(src[c].image), call[c].start + 1, call[c].start + 1024)

\* The little-endian readings of raw bytes at an offset.
MagicAt(w) == w[57] + 256 * w[58]

LE16(w, o) == <<w[o + 2], w[o + 1]>>

LE32(w, o) == <<w[o + 4], w[o + 3], w[o + 2], w[o + 1]>>

\* The error a source that ran short makes io.ReadFull report.
ShortReadError(c) ==
  IF Unread(c) = 0 THEN src[c].image.end.err
  ELSE IF src[c].image.end.err = "EOF" THEN "unexpected EOF"
  ELSE src[c].image.end.err

\* C1: a call on a source with 1024 unread bytes whose magic field (0x38,
\* little-endian) is not 0xEF53 ends in failure with ErrNotExt4, and the
\* caller gets no record, whatever the other bytes are.
C1_BadMagicFails ==
  \A c \in Threads :
    (Done(c) /\ Unread(c) >= 1024 /\ MagicAt(Window(c)) # 61267)
      => /\ call[c].out.kind = "panic"
         /\ call[c].out.value.err = "not ext4"
         /\ call[c].out.sb = NilPtr

C1_Witness ==
  /\ Done(1) /\ call[1].ord = 2 /\ Unread(1) >= 1024 /\ Window(1) = BlockBytes(BadSwapped)
  /\ call[1].out.value.err = "not ext4"

\* C2: a call on a source that runs out (or fails) before 1024 bytes ends in
\* failure with the read error (io.EOF, io.ErrUnexpectedEOF or the source's
\* own error), never with ErrNotExt4, and the caller gets no record, whatever
\* the bytes that were read hold at the magic offset.
C2_ShortReadFails ==
  \A c \in Threads :
    (Done(c) /\ Unread(c) < 1024)
      => /\ call[c].out.kind = "panic"
         /\ call[c].out.sb = NilPtr
         /\ call[c].out.value.err # "not ext4"
         /\ call[c].out.value.err = ShortReadError(c)

C2_Witness ==
  /\ Done(1) /\ Unread(1) = 58 /\ MagicAt(Data(src[1].image)) = 61267
  /\ call[1].out.value.err = "unexpected EOF"

\* C3: a call on 1024 bytes whose magic is 0xEF53 succeeds whatever the other
\* fields hold; the record's fields are the little-endian values at their
\* offsets (SLogBlockSize 0x18, SMagic 0x38, SRevLevel 0x4C, SFeatureCompat
\* 0x5C, SFeatureIncompat 0x60, SFeatureRoCompat 0x64, SChecksum 0x3FC), and
\* encoding the record gives the 1024 bytes back, which decode to it again.
C3_GoodMagicDecodes ==
  \A c \in Threads :
    (Done(c) /\ Unread(c) >= 1024 /\ MagicAt(Window(c)) = 61267)
      => /\ call[c].out.kind = "return"
         /\ call[c].out.err = Nil
         /\ LET w == Window(c)
                sb == heap[call[c].out.sb]
            IN  /\ DOMAIN sb = FieldNames
                /\ sb.SLogBlockSize = LE32(w, 24)
                /\ sb.SMagic = LE16(w, 56)
                /\ sb.SRevLevel = LE32(w, 76)
                /\ sb.SFeatureCompat = LE32(w, 92)
                /\ sb.SFeatureIncompat = LE32(w, 96)
                /\ sb.SFeatureRoCompat = LE32(w, 100)
                /\ sb.SChecksum = LE32(w, 1020)
                /\ Len(Encode(sb)) = SuperblockSize
                /\ Encode(sb) = w
                /\ Decode(Encode(sb)) = sb

C3_Witness ==
  /\ Done(1) /\ call[1].out.kind = "return"
  /\ LE32(Window(1), 24) = <<255, 255, 255, 255>>
  /\ heap[call[1].out.sb].SChecksum = <<4, 1, 254, 251>>

\* The record the last accessor call was made on.
RetSb == heap[reply.sb]

IsSmall(e) == e[1] = 0 /\ e[2] = 0 /\ e[3] = 0

\* v, a uint32, is 2^x.
EqualsPow2(v, x) ==
  IF x < 16 THEN 256 * v[1] + v[2] = 0 /\ 256 * v[3] + v[4] = 2 ^ x
  ELSE x < 32 /\ 256 * v[1] + v[2] = 2 ^ (x - 16) /\ 256 * v[3] + v[4] = 0

\* C4 (as amended): for every stored exponent e <= 21 BlockSize returns
\* exactly 2^(10 + e), whatever the other fields hold: 1024 for 0, 4096 for 2,
\* 65536 for 6.
C4_BlockSizeInRange ==
  reply.op = "BlockSize"
    => LET e == RetSb.SLogBlockSize
       IN  /\ (IsSmall(e) /\ e[4] <= 21) => EqualsPow2(reply.res, 10 + e[4])
           /\ e = <<0, 0, 0, 0>> => reply.res = <<0, 0, 4, 0>>
           /\ e = <<0, 0, 0, 2>> => reply.res = <<0, 0, 16, 0>>
           /\ e = <<0, 0, 0, 6>> => reply.res = <<0, 1, 0, 0>>

C4_Witness ==
  /\ reply.op = "BlockSize" /\ RetSb.SLogBlockSize = <<0, 0, 0, 21>>
  /\ reply.res = <<128, 0, 0, 0>> /\ RetSb.SInodesCount # Zero(4)

\* C4 as stated: for every value e of the exponent BlockSize returns 2^(10 + e).
C4_EveryExponent ==
  reply.op = "BlockSize"
    => LET e == RetSb.SLogBlockSize
       IN  IsSmall(e) /\ EqualsPow2(reply.res, 10 + e[4])

\* Bit i of a uint32, and whether two uint32 share a set bit.
Bit(v, i) == (v[4 - (i \div 8)] \div (2 ^ (i % 8))) % 2

Overlaps(a, m) == \E i \in 0..31 : Bit(a, i) = 1 /\ Bit(m, i) = 1

Bits(lookup) == {lookup[k] : k \in DOMAIN lookup}

\* C5: each of the three predicates answers whether the mask shares a bit
\* with its own category's stored field; so a field holding exactly one
\* registry bit answers true for that bit and false for the category's others.
C5_FeaturePredicates ==
  /\ reply.op = "HasCompatibleFeature"
       => /\ reply.res = Overlaps(RetSb.SFeatureCompat, reply.mask)
          /\ ({RetSb.SFeatureCompat, reply.mask} \subseteq Bits(registry.CompatLookup))
               => reply.res = (reply.mask = RetSb.SFeatureCompat)
  /\ reply.op = "HasReadonlyCompatibleFeature"
       => /\ reply.res = Overlaps(RetSb.SFeatureRoCompat, reply.mask)
          /\ ({RetSb.SFeatureRoCompat, reply.mask} \subseteq Bits(registry.RoCompatLookup))
               => reply.res = (reply.mask = RetSb.SFeatureRoCompat)
  /\ reply.op = "HasIncompatibleFeature"
       => /\ reply.res = Overlaps(RetSb.SFeatureIncompat, reply.mask)
          /\ ({RetSb.SFeatureIncompat, reply.mask} \subseteq Bits(registry.IncompatLookup))
               => reply.res = (reply.mask = RetSb.SFeatureIncompat)

C5_Witness ==
  /\ reply.op = "HasCompatibleFeature"
  /\ RetSb.SFeatureCompat = SbFeatureCompatHasJournal
  /\ reply.mask = SbFeatureCompatExtAttr
  /\ reply.res = FALSE

\* C6: HasExtended is false for revision level 0, true for 1 and for every
\* level above, whatever the extended zone and the other fields hold.
C6_HasExtended ==
  reply.op = "HasExtended"
    => LET r == RetSb.SRevLevel
       IN  /\ r = Small(SbRevlevelGoodOldRev, 4) => reply.res = FALSE
           /\ r = <<0, 0, 0, 1>> => reply.res = TRUE
           /\ (\E j \in 1..4 : r[j] # 0) => reply.res = TRUE

C6_Witness ==
  /\ reply.op = "HasExtended" /\ RetSb.SRevLevel = <<0, 0, 0, 0>>
  /\ RetSb.SFirstIno # Zero(4) /\ reply.res = FALSE

\* Two calls that began on the same 1024 bytes.
SameBytes(c, d) == Unread(c) >= 1024 /\ Unread(d) >= 1024 /\ Window(c) = Window(d)

SameResults ==
  \A c, d \in Threads :
    (c # d /\ Done(c) /\ Done(d) /\ SameBytes(c, d))
      => /\ call[c].out.kind = call[d].out.kind
         /\ call[c].out.value = call[d].out.value
         /\ call[c].out.kind = "return"
              => /\ call[c].out.sb # call[d].out.sb
                 /\ heap[call[c].out.sb] = heap[call[d].out.sb]

\* A step of one call leaves alone the other thread's call and source, every
\* record but the one the call is filling, and the registry.
OwnStateOnly ==
  \A c \in Threads :
    call'[c] # call[c]
      => /\ \A d \in Threads \ {c} : call'[d] = call[d] /\ src'[d] = src[d]
         /\ \A a \in DOMAIN heap : a # call'[c].sb => heap'[a] = heap[a]
         /\ registry' = registry

\* C7: two calls on sources holding the same 1024 bytes end the same way with
\* two distinct, field-by-field equal records, however their steps interleave,
\* and no step of a call touches what another call or a later call can
\* observe, the registry included.
C7_Independent == []SameResults /\ [][OwnStateOnly]_vars

C7_Witness ==
  /\ Done(1) /\ Done(2) /\ SameBytes(1, 2)
  /\ call[1].ord = 1 /\ call[2].ord = 2
  /\ call[1].out.kind = "return" /\ call[2].out.kind = "return"

\* Bytewise order of two strings, as Go's < on strings.
LexLess(a, b) ==
  \E k \in 1..(Min(Len(a), Len(b)) + 1) :
    /\ \A j \in 1..(k - 1) : a[j] = b[j]
    /\ \/ k > Len(a) /\ k <= Len(b)
       \/ k <= Len(a) /\ k <= Len(b) /\ a[k] < b[k]

StrLess(s, t) == LexLess(StringBytes[s], StringBytes[t])

\* The listing is strictly sorted and holds exactly the keys of the lookup.
SortedListing(names, lookup) ==
  /\ \A i \in 1..(Len(names) - 1) : StrLess(names[i], names[i + 1])
  /\ {names[i] : i \in 1..Len(names)} = DOMAIN lookup

\* The flag lines a category should give: its keys by rank, each with its
\* mask and whether the field has it.
ExpectedFlags(lookup, field) ==
  [i \in 1..Cardinality(DOMAIN lookup) |->
     LET k == CHOOSE k \in DOMAIN lookup :
                Cardinality({j \in DOMAIN lookup : StrLess(j, k)}) = i - 1
     IN  <<k, lookup[k], Overlaps(field, lookup[k])>>]

IsFlagLine(l) == l.fmt = "  %15s (0x%02x): %v\n"

\* C8: each category's listing is strictly sorted, without duplicates, and is
\* exactly the key set of its lookup; Dump prints every named flag once, in
\* that order, with the lookup's mask and the predicate's answer.
C8_SortedRegistry ==
  /\ SortedListing(registry.CompatNames, registry.CompatLookup)
  /\ SortedListing(registry.RoCompatNames, registry.RoCompatLookup)
  /\ SortedListing(registry.IncompatNames, registry.IncompatLookup)
  /\ reply.op = "Dump"
       => LET flags == SelectSeq(reply.res, IsFlagLine)
          IN  [i \in 1..Len(flags) |-> flags[i].args]
                = ExpectedFlags(registry.CompatLookup, RetSb.SFeatureCompat)
                    \o ExpectedFlags(registry.RoCompatLookup, RetSb.SFeatureRoCompat)
                    \o ExpectedFlags(registry.IncompatLookup, RetSb.SFeatureIncompat)

C8_Witness ==
  /\ reply.op = "Dump" /\ Len(reply.res) = 59
  /\ RetSb.SFeatureIncompat = <<0, 0, 2, 66>>
  /\ reply.res[50].args = <<"64bit", <<0, 0, 0, 128>>, FALSE>>
  /\ reply.res[52].args = <<"Extents", <<0, 0, 0, 64>>, TRUE>>

\* C9: a call that found 1024 unread bytes has, once its read is over, moved
\* the source by exactly 1024 bytes and decoded exactly those; it is the k-th
\* call on the source and decoded bytes [1024(k-1), 1024k), and this stays so
\* when the call fails on the magic.  No call ever reads past its block.
C9_ExactlyOneBlock ==
  \A c \in Threads :
    /\ call[c].pc # "idle"
         => /\ src[c].pos = call[c].start + call[c].n
            /\ call[c].n <= SuperblockSize
    /\ (call[c].pc \in {"decode", "panicif", "magic", "deferred", "done"}
          /\ Unread(c) >= 1024)
         => /\ src[c].pos = call[c].start + SuperblockSize
            /\ call[c].start = SuperblockSize * (call[c].ord - 1)
            /\ IF call[c].pc = "decode" THEN call[c].buf = Window(c)
               ELSE Encode(heap[call[c].sb]) = Window(c)

C9_Witness ==
  /\ Done(1) /\ call[1].ord = 2 /\ call[1].out.kind = "panic"
  /\ src[1].pos = 2048 /\ src[1].image.len > 2048

\* C10: a finished call either returned a record with magic 0xEF53 and a nil
\* error, or left by a panic carrying the wrapped original error; every read
\* failure and every magic mismatch is such a panic, so the caller never gets
\* a non-nil error value nor a record together with a failure.
C10_PanicsNeverReturnsError ==
  \A c \in Threads :
    Done(c)
      => LET o == call[c].out
         IN  /\ o.kind \in {"return", "panic"}
             /\ o.err = Nil
             /\ o.kind = "return"
                  => /\ o.sb # NilPtr
                     /\ o.value = Nil
                     /\ Val(heap[o.sb].SMagic) = 61267
             /\ o.kind = "panic"
                  => /\ o.sb = NilPtr
                     /\ o.value.wrapped
                     /\ o.value.err = IF Unread(c) < 1024 THEN ShortReadError(c)
                                      ELSE "not ext4"
             /\ (Unread(c) < 1024 \/ MagicAt(Window(c)) # 61267) => o.kind = "panic"

C10_Witness ==
  /\ Done(1) /\ call[1].out.kind = "return"
  /\ Done(2) /\ call[2].out.kind = "panic"
  /\ call[2].out.value = Wrap(ErrSource)

====
